---- MODULE Spec2Model ----
(***************************************************************************)
(* A model of the spark-rag client: the async-polled document upload of    *)
(* gradio_kb_manager_enhanced.py (DocumentProcessor), the streaming        *)
(* response decoders (RAGChatBot.query_rag_stream, three variants) with    *)
(* the chat handler that accumulates their chunks, the non-streaming       *)
(* fallback loop (RAGChatBot.query_rag_fallback) of gradio_chat_app.py,    *)
(* the listing normalizers (KnowledgeBaseManager.list_collections and      *)
(* list_documents), the blocking upload driven by upload_files_enhanced,   *)
(* chat_fn up to its generation request, the management handlers that      *)
(* change the backend, and the two reloaders (SimpleReloader,              *)
(* GradioHotReloader).                                                     *)
(***************************************************************************)
EXTENDS Integers, Sequences, FiniteSets, TLC

(***************************************************************************)
(* Part 1.  DocumentProcessor: upload_document_async and _poll_task_status *)
(***************************************************************************)

\* The upload calls that can be made on the one DocumentProcessor.
Uploads == {"u1", "u2"}

\* File names, collection names and caller-chosen task identifiers.
Files == {"a.pdf", "b.pdf"}
Colls == {"kb1", "kb2"}
TaskIds == {"t1", "t2"}

\* max_attempts = 60 of poll().
max_attempts == 60

\* attempt % 6 == 0: the progress callback period inside the poll loop.
progress_every == 6

\* Absent key of the processing_tasks dict.
NoTask == [file_name |-> "", collection_name |-> "", status |-> "absent"]

\* No progress_callback invocation yet; no request in flight.
NoCalls == [upload |-> 0, poll |-> 0]
NoRequests == [upload |-> 0, poll |-> 0]

VARIABLES
    pc,                \* per upload call: where the call / its poll thread is
    file_name,         \* per upload call: os.path.basename(file_path)
    collection_name,   \* per upload call: the target collection
    task_id,           \* per upload call: the caller-chosen key
    has_callback,      \* per upload call: progress_callback is not None
    attempt,           \* per upload call: the loop counter of poll()
    polls,             \* per upload call: listing requests issued by its poll thread
    shownAt,           \* per upload call: the first poll answered 200 with the file name listed (0: none)
    retval,            \* per upload call: what upload_document_async returned
    processing_tasks,  \* DocumentProcessor.processing_tasks
    listing,           \* backend: names listed by GET /documents per collection
    backendBusy,       \* backend: uploads accepted and still being processed
    callback_calls,    \* per upload call: progress_callback invocations, by the upload call and by its poll thread
    inflight,          \* per upload call: its requests sent and not yet answered
    cancel_requested,  \* per upload call: somebody outside asked for the task to stop
    \* ---- chat stream
    variant,           \* which query_rag_stream / chat_fn pair is running
    input,             \* the lines the transport delivers, in arrival order
    pos,               \* how many lines the generator has taken from the transport
    spc,               \* position of the generator and of the chat handler
    yielded,           \* the chunks the generator has yielded so far
    delivered,         \* the chunks chat_fn has appended to the reply
    assistant_message, \* chat_fn's accumulator
    reply,             \* history[-1][1], the assistant reply shown by chat_fn
    exception,         \* the exception the transport raised in this turn ("none": none)
    \* ---- fallback
    use_knowledge_base, \* argument of query_rag_fallback
    fpc,               \* position of query_rag_fallback
    i,                 \* enumerate index of the variant being tried
    requests,          \* the payloads posted so far, in order
    outcomes,          \* what each request met
    result,            \* the value returned
    \* ---- listing normalizers
    npc,               \* position of the listing call
    endpoint,          \* which listing is asked for: collections or documents
    response,          \* what GET /collections or GET /documents met
    listed,            \* what list_collections / list_documents returned
    choices,           \* what get_collections_list hands to the dropdown
    \* ---- blocking upload
    bpc,               \* position of upload_files_enhanced
    file_paths,        \* the files selected for upload, in order
    posted,            \* the upload requests issued so far: the file each one carried
    answers,           \* what the upload request of each finished call met
    results,           \* results of upload_files_enhanced: (file_name, success, message)
    \* ---- chat_fn up to the generation request
    cpc,               \* position of chat_fn
    handler,           \* which chat_fn runs: app, enhanced or fixed
    message,           \* the text typed
    history,           \* the chat history: [user, assistant] pairs
    selected,          \* the collection chosen in the dropdown ("": none)
    kb_on,            \* the knowledge-base checkbox
    force_chinese,     \* the force-Chinese checkbox
    outputs,           \* the histories chat_fn has yielded to the interface
    sent,              \* the requests chat_fn has sent, in order
    \* ---- knowledge-base management handlers
    mpc,               \* position of the handler
    click,             \* the handler a button runs and the inputs it is given
    mutations,         \* the POST / DELETE requests the handler has sent
    notice,            \* what the status box is told
    \* ---- reloaders
    reloader,          \* which launcher runs: simple or hot
    rpc,               \* position of run() in the main thread
    opc,               \* the watchdog observer thread of the hot reloader
    todo,              \* per thread: the steps of start_gradio / stop_gradio still to run
    process,           \* self.process: the child it refers to (0: None)
    alive,             \* the children that are alive
    spawned,           \* how many children Popen has created
    last_stop,         \* how the last stop_gradio got rid of its child
    mtime,             \* modification time of the watched script
    last_modified,     \* SimpleReloader.last_modified
    pending            \* hot reloader: a modification event waits for the observer

ingestVars == <<pc, file_name, collection_name, task_id, has_callback, attempt,
                polls, shownAt, retval, processing_tasks, listing, backendBusy,
                callback_calls, inflight, cancel_requested>>
streamVars == <<variant, input, pos, spc, yielded, delivered, assistant_message,
                reply, exception>>
fallbackVars == <<use_knowledge_base, fpc, i, requests, outcomes, result>>
shapeVars == <<npc, endpoint, response, listed, choices>>
blockingVars == <<bpc, file_paths, posted, answers, results>>
chatVars == <<cpc, handler, message, history, selected, kb_on, force_chinese,
              outputs, sent>>
manageVars == <<mpc, click, mutations, notice>>
reloadVars == <<reloader, rpc, opc, todo, process, alive, spawned, last_stop, mtime,
                last_modified, pending>>
laterVars == <<chatVars, manageVars, reloadVars>>
vars == <<ingestVars, streamVars, fallbackVars, shapeVars, blockingVars, laterVars>>

\* The status recorded for upload u's task identifier.
StatusOf(u) == processing_tasks[task_id[u]].status

\* ---- the backend (the ingestion service, outside this repository)

\* The backend finishes processing an accepted upload: its document is listed.
BackendFinish(u) ==
    /\ u \in backendBusy
    /\ backendBusy' = backendBusy \ {u}
    /\ listing' = [listing EXCEPT ![collection_name[u]] = @ \cup {file_name[u]}]
    /\ UNCHANGED <<pc, file_name, collection_name, task_id, has_callback, attempt,
                   polls, shownAt, retval, processing_tasks, callback_calls,
                   inflight, cancel_requested>>
    /\ UNCHANGED <<streamVars, fallbackVars, shapeVars, blockingVars, laterVars>>

\* The backend gives up on an accepted upload: its document never appears.
BackendFail(u) ==
    /\ u \in backendBusy
    /\ backendBusy' = backendBusy \ {u}
    /\ UNCHANGED <<pc, file_name, collection_name, task_id, has_callback, attempt,
                   polls, shownAt, retval, processing_tasks, listing,
                   callback_calls, inflight, cancel_requested>>
    /\ UNCHANGED <<streamVars, fallbackVars, shapeVars, blockingVars, laterVars>>

\* ---- upload_document_async

\* The answers POST /documents can meet: 200 with a JSON object, 200 with a
\* body json() rejects, another status, or requests.post raising.
PostAnswers == {"ok", "ok_badjson", "status_err", "raises"}

\* Whether a call of the progress callback raises; without a callback nothing is called.
CallbackRaises(u) == IF has_callback[u] THEN BOOLEAN ELSE {FALSE}

\* The entry stored under task_id on a 200 answer.
NewTask(u) ==
    [file_name |-> file_name[u], collection_name |-> collection_name[u],
     status |-> "processing"]

\* The except branch of upload_document_async: the callback is told, False is
\* returned; when the callback raises here the exception leaves the function.
ExceptReturn(cbRaises) == IF cbRaises THEN "raised" ELSE "False"

\* if progress_callback: progress_callback(...), n times, by the upload call
\* ("upload") or by its poll thread ("poll").
Invoked(u, by, n) ==
    [callback_calls EXCEPT ![u][by] = @ + (IF has_callback[u] THEN n ELSE 0)]

\* requests.post / requests.get returned or raised: the request is no longer
\* in flight.
Answered(u, kind) ==
    [inflight EXCEPT ![u][kind] = IF @ > 0 THEN @ - 1 ELSE 0]

UploadAsync(u) ==
    /\ pc[u] = "idle"
    /\ inflight' = Answered(u, "upload")
    /\ \E cb1 \in CallbackRaises(u), ans \in PostAnswers,
          cb2 \in CallbackRaises(u), cb3 \in CallbackRaises(u) :
         /\ callback_calls' =
              \* the first callback and one of the branch's; a third when the
              \* branch's callback raised into the except clause
              Invoked(u, "upload",
                      IF ~cb1 /\ ans \in {"status_err", "ok"} /\ cb2 THEN 3 ELSE 2)
         /\ IF cb1
            THEN \* the first progress_callback raised: nothing is sent
                 /\ pc' = [pc EXCEPT ![u] = "done"]
                 /\ retval' = [retval EXCEPT ![u] = ExceptReturn(cb3)]
                 /\ UNCHANGED <<processing_tasks, backendBusy>>
            ELSE CASE ans = "raises" ->
                        /\ pc' = [pc EXCEPT ![u] = "done"]
                        /\ retval' = [retval EXCEPT ![u] = ExceptReturn(cb3)]
                        /\ UNCHANGED <<processing_tasks, backendBusy>>
                   [] ans = "status_err" ->
                        \* the else branch: callback, return False; a raising
                        \* callback lands in the except branch
                        /\ pc' = [pc EXCEPT ![u] = "done"]
                        /\ retval' = [retval EXCEPT ![u] =
                                        IF cb2 THEN ExceptReturn(cb3) ELSE "False"]
                        /\ UNCHANGED <<processing_tasks, backendBusy>>
                   [] ans = "ok_badjson" ->
                        \* the backend accepted, response.json() raises
                        /\ backendBusy' = backendBusy \cup {u}
                        /\ pc' = [pc EXCEPT ![u] = "done"]
                        /\ retval' = [retval EXCEPT ![u] = ExceptReturn(cb3)]
                        /\ UNCHANGED processing_tasks
                   [] ans = "ok" ->
                        /\ backendBusy' = backendBusy \cup {u}
                        /\ processing_tasks' =
                             [processing_tasks EXCEPT ![task_id[u]] = NewTask(u)]
                        /\ IF cb2
                           THEN \* the callback after the entry was stored raised:
                                \* no poll thread is started
                                /\ pc' = [pc EXCEPT ![u] = "done"]
                                /\ retval' = [retval EXCEPT ![u] = ExceptReturn(cb3)]
                           ELSE /\ pc' = [pc EXCEPT ![u] = "polling"]
                                /\ retval' = [retval EXCEPT ![u] = "True"]
    /\ UNCHANGED <<file_name, collection_name, task_id, has_callback, attempt,
                   polls, shownAt, listing, cancel_requested>>
    /\ UNCHANGED <<streamVars, fallbackVars, shapeVars, blockingVars, laterVars>>

\* ---- _poll_task_status.poll

\* The answers GET /documents can meet: 200 with the wrapped listing of the
\* collection, another status, or an exception (requests.get or json() raising).
PollAnswers == {"ok", "status_err", "raises"}

\* The collection whose listing poll() asks for.
PolledCollection(u) == collection_name[u]

\* for doc in documents: doc.get('document_name') == file_name
DocumentFound(u) == file_name[u] \in listing[PolledCollection(u)]

\* while attempt < max_attempts
LoopGuard(u) == attempt[u] < max_attempts

\* A poll loop whose found branch lacks the return.
AfterFoundWithoutReturn(cbRaises) == "polling"

\* Where the thread goes after the found branch: return, or, when the
\* callback raised, the except clause's break.
AfterFound(cbRaises) == IF cbRaises THEN "after_loop" ELSE "done"

\* A progress test that lets the callback be told on every attempt.
ProgressDueEveryAttempt(u) == has_callback[u]

\* if progress_callback and attempt % 6 == 0
ProgressDue(u) == has_callback[u] /\ attempt[u] % progress_every = 0

\* The backend's answer to a 200 listing of u's collection holds u's file name.
Listed(u) == file_name[u] \in listing[collection_name[u]]

\* One iteration of the while loop, its requests.get answered with ans; cb
\* tells whether the progress callback raises when it is called.
PollAnswered(u, ans, cb) ==
    /\ pc[u] = "polling"
    /\ LoopGuard(u)
    /\ polls' = [polls EXCEPT ![u] = @ + 1]
    /\   /\ shownAt' = IF ans = "ok" /\ Listed(u) /\ shownAt[u] = 0
                       THEN [shownAt EXCEPT ![u] = polls'[u]]
                       ELSE shownAt
         /\ CASE ans = "raises" ->
                   \* except Exception: break
                   /\ pc' = [pc EXCEPT ![u] = "after_loop"]
                   /\ UNCHANGED <<attempt, processing_tasks, callback_calls>>
              [] ans = "ok" /\ DocumentFound(u) ->
                   /\ processing_tasks' =
                        IF processing_tasks[task_id[u]] # NoTask
                        THEN [processing_tasks EXCEPT ![task_id[u]].status = "completed"]
                        ELSE processing_tasks
                   /\ callback_calls' =
                        Invoked(u, "poll",
                                IF processing_tasks[task_id[u]] # NoTask THEN 1 ELSE 0)
                   /\ pc' = [pc EXCEPT ![u] = AfterFound(cb)]
                   /\ UNCHANGED attempt
              [] OTHER ->
                   \* not listed, or a status other than 200
                   /\ callback_calls' =
                        Invoked(u, "poll", IF ProgressDue(u) THEN 1 ELSE 0)
                   /\ IF ProgressDue(u) /\ cb
                      THEN /\ pc' = [pc EXCEPT ![u] = "after_loop"]
                           /\ UNCHANGED <<attempt, processing_tasks>>
                      ELSE /\ attempt' = [attempt EXCEPT ![u] = @ + 1]
                           /\ UNCHANGED <<pc, processing_tasks>>
    /\ inflight' = Answered(u, "poll")
    /\ UNCHANGED <<file_name, collection_name, task_id, has_callback, retval,
                   listing, backendBusy, cancel_requested>>
    /\ UNCHANGED <<streamVars, fallbackVars, shapeVars, blockingVars, laterVars>>

\* One iteration of the while loop.
Poll(u) ==
    \E ans \in PollAnswers, cb \in CallbackRaises(u) : PollAnswered(u, ans, cb)

\* The code after the loop, reached when the loop guard fails or by break.
AfterLoop(u) ==
    /\ \/ pc[u] = "after_loop"
       \/ pc[u] = "polling" /\ ~LoopGuard(u)
    /\ processing_tasks' =
         IF processing_tasks[task_id[u]] # NoTask
         THEN [processing_tasks EXCEPT ![task_id[u]].status = "timeout"]
         ELSE processing_tasks
    /\ callback_calls' =
         Invoked(u, "poll", IF processing_tasks[task_id[u]] # NoTask THEN 1 ELSE 0)
    /\ pc' = [pc EXCEPT ![u] = "done"]
    /\ UNCHANGED <<file_name, collection_name, task_id, has_callback, attempt,
                   polls, shownAt, retval, listing, backendBusy, inflight,
                   cancel_requested>>
    /\ UNCHANGED <<streamVars, fallbackVars, shapeVars, blockingVars, laterVars>>

\* ---- the requests of one upload call, sent and answered in separate steps

\* A thread that never waits for the answer of its request.
NeverBlocked(u) == FALSE

\* requests.post / requests.get are synchronous: the thread that sent a
\* request goes on only with its answer.
Blocked(u) == inflight[u].upload + inflight[u].poll > 0

\* requests.post(f"{ingestor_url}/documents", ...) goes out.
UploadSend(u) ==
    /\ pc[u] = "idle"
    /\ ~Blocked(u)
    /\ inflight' = [inflight EXCEPT ![u].upload = @ + 1]
    /\ UNCHANGED <<pc, file_name, collection_name, task_id, has_callback, attempt,
                   polls, shownAt, retval, processing_tasks, listing, backendBusy,
                   callback_calls, cancel_requested>>
    /\ UNCHANGED <<streamVars, fallbackVars, shapeVars, blockingVars, laterVars>>

\* Its answer arrives: the rest of upload_document_async runs.
UploadReceive(u) ==
    /\ inflight[u].upload > 0
    /\ UploadAsync(u)

\* requests.get(f"{ingestor_url}/documents", ...) of the poll loop goes out.
PollSend(u) ==
    /\ pc[u] = "polling"
    /\ LoopGuard(u)
    /\ ~Blocked(u)
    /\ inflight' = [inflight EXCEPT ![u].poll = @ + 1]
    /\ UNCHANGED <<pc, file_name, collection_name, task_id, has_callback, attempt,
                   polls, shownAt, retval, processing_tasks, listing, backendBusy,
                   callback_calls, cancel_requested>>
    /\ UNCHANGED <<streamVars, fallbackVars, shapeVars, blockingVars, laterVars>>

\* Its answer arrives: the rest of the loop iteration runs.
PollReceive(u) ==
    /\ inflight[u].poll > 0
    /\ Poll(u)

\* ---- cancellation (asked for from outside; the code has no entry point for it)

\* Somebody outside asks for upload u to stop.
Cancel(u) ==
    /\ pc[u] \in {"idle", "polling"}
    /\ ~cancel_requested[u]
    /\ cancel_requested' = [cancel_requested EXCEPT ![u] = TRUE]
    /\ UNCHANGED <<pc, file_name, collection_name, task_id, has_callback, attempt,
                   polls, shownAt, retval, processing_tasks, listing, backendBusy,
                   callback_calls, inflight>>
    /\ UNCHANGED <<streamVars, fallbackVars, shapeVars, blockingVars, laterVars>>

(***************************************************************************)
(* Part 2.  RAGChatBot.query_rag_stream and the chat_fn that consumes it   *)
(***************************************************************************)

\* The three query_rag_stream / chat_fn pairs of the repository.
Variants == {"app", "enhanced", "fixed"}

\* Longest line sequence the transport delivers in the model.
MaxLines == 3

\* The non-empty delta texts of the model.
Contents == {"A", "B"}

\* A text is a sequence of tokens; concatenation of texts is \o.
\* A chunk is what the generator yields: a text, or a value that is no string.
StrChunk(text) == [isStr |-> TRUE, text |-> text]
NoneChunk == [isStr |-> FALSE, text |-> <<>>]

\* The lines of the model, by what the bytes are:
\*   blank          b''
\*   delta          data: {"choices":[{"delta":{"content":"<c>"}}]}
\*   empty_delta    data: {"choices":[{"delta":{"content":""}}]}
\*   null_delta     data: {"choices":[{"delta":{"content":null}}]}
\*   no_content     data: {"choices":[{"delta":{}}]}
\*   no_choices     data: {"id":"x"}
\*   non_object     data: 5
\*   malformed      data: {"choices":[{"del
\*   done           data: [DONE]
\*   done_indented  " data: [DONE]" (leading blank)
\*   no_prefix      event: message
Line(kind, c) == [kind |-> kind, content |-> c]
LineKinds == {"blank", "empty_delta", "null_delta", "no_content", "no_choices",
              "non_object", "malformed", "done", "done_indented", "no_prefix"}
Lines == {Line(k, "") : k \in LineKinds} \cup {Line("delta", c) : c \in Contents}

\* All line sequences of length 0..n.
SeqsUpTo(S, n) == UNION {[1..k -> S] : k \in 0..n}

\* if line:
NonEmptyLine(l) == l.kind # "blank"

\* line_text.startswith('data: ')
StartsWithData(l) == l.kind \notin {"blank", "done_indented", "no_prefix"}

\* line_text.strip() == 'data: [DONE]'
StripIsDoneLine(l) == l.kind \in {"done", "done_indented"}

\* line[6:].strip() == '[DONE]'
PayloadIsDone(l) == l.kind = "done"

\* json.loads(line_text[6:]): "error" is JSONDecodeError, else the kind of value.
JsonLoads(l) ==
    CASE l.kind \in {"malformed", "done"} -> "error"
      [] l.kind = "non_object" -> "number"
      [] OTHER -> "object"

\* 'choices' in data and data['choices'] (truthy); on a number `in` raises TypeError.
HasChoices(l) == l.kind \in {"delta", "empty_delta", "null_delta", "no_content"}

\* A decoder that looks for 'content' in the envelope instead of the delta.
HasContentInEnvelope(l) == FALSE

\* 'content' in delta, with delta = data['choices'][0].get('delta', {})
HasContent(l) == l.kind \in {"delta", "empty_delta", "null_delta"}

\* delta['content']
DeltaContent(l) ==
    CASE l.kind = "delta" -> StrChunk(<<l.content>>)
      [] l.kind = "empty_delta" -> StrChunk(<<>>)
      [] OTHER -> NoneChunk

\* What one line makes a decoder do.
Skip == [do |-> "skip", chunk |-> NoneChunk]
Break == [do |-> "break", chunk |-> NoneChunk]
Raise == [do |-> "raise", chunk |-> NoneChunk]
Yield(chunk) == [do |-> "yield", chunk |-> chunk]

\* A decoder without the inner try: the decode error reaches the outer except.
OnDecodeErrorAbort == Raise

\* except json.JSONDecodeError: continue
OnDecodeError == Skip

\* The loop body of query_rag_stream in gradio_chat_app.py, and, line for
\* line the same, in gradio_kb_manager_enhanced.py.
DecodeApp(l) ==
    IF ~NonEmptyLine(l) THEN Skip
    ELSE IF StartsWithData(l)
         THEN CASE JsonLoads(l) = "error" -> OnDecodeError
                [] JsonLoads(l) = "number" -> Raise
                [] OTHER -> IF HasChoices(l) /\ HasContent(l)
                            THEN Yield(DeltaContent(l))
                            ELSE Skip
         ELSE IF StripIsDoneLine(l) THEN Break ELSE Skip

\* delta.get('content', '') followed by `if content:` in the fixed manager.
TruthyContent(l) == HasContent(l) /\ DeltaContent(l).isStr /\ DeltaContent(l).text # <<>>

\* The loop body of query_rag_stream in gradio_kb_manager_fixed.py.
DecodeFixed(l) ==
    IF ~NonEmptyLine(l) THEN Skip
    ELSE IF StartsWithData(l)
         THEN IF PayloadIsDone(l) THEN Break
              ELSE CASE JsonLoads(l) = "error" -> OnDecodeError
                     [] JsonLoads(l) = "number" -> Raise
                     [] OTHER -> IF HasChoices(l) /\ TruthyContent(l)
                                 THEN Yield(DeltaContent(l))
                                 ELSE Skip
         ELSE Skip

Decode(v, l) == IF v = "fixed" THEN DecodeFixed(l) ELSE DecodeApp(l)

\* The error texts the generators yield as chunks, and chat_fn's own.
ErrStatus == <<"ERR_STATUS">>
ErrConnection == <<"ERR_CONNECTION">>
ErrTimeout == <<"ERR_TIMEOUT">>
ErrUnknown == <<"ERR_UNKNOWN">>
ErrChat == <<"ERR_CHAT_FN">>
ErrorTexts == {ErrStatus, ErrConnection, ErrTimeout, ErrUnknown, ErrChat}

\* What requests raises: ConnectionError (refused, reset), ConnectTimeout (the
\* timeout= deadline ran out while connecting), Timeout (it ran out while
\* reading: ReadTimeout), or something else.
Exceptions == {"ConnectionError", "ConnectTimeout", "Timeout", "Other"}

\* isinstance(e, requests.exceptions.ConnectionError): ConnectTimeout derives
\* from both ConnectionError and Timeout.
IsConnectionError(exc) == exc \in {"ConnectionError", "ConnectTimeout"}

\* isinstance(e, requests.exceptions.Timeout)
IsTimeout(exc) == exc \in {"ConnectTimeout", "Timeout"}

\* The text an except clause of query_rag_stream yields for an exception.
\* The fixed manager has the one clause `except Exception`.
\* The clauses are tried in order: except ConnectionError, except Timeout,
\* except Exception.
ExceptText(v, exc) ==
    IF v = "fixed" THEN ErrConnection
    ELSE CASE IsConnectionError(exc) -> ErrConnection
           [] IsTimeout(exc) -> ErrTimeout
           [] OTHER -> ErrUnknown

\* What chat_fn does when `+=` raises on a chunk that is no string: the app
\* catches it and overwrites the reply; the managers have no try.
ReplyAfterCrash(v, shown) == IF v = "app" THEN ErrChat ELSE shown

\* The body of chat_fn's for loop on one chunk:
\*   assistant_message += chunk; history[-1][1] = assistant_message
Consume(chunk) ==
    IF chunk.isStr
    THEN /\ assistant_message' = assistant_message \o chunk.text
         /\ reply' = assistant_message \o chunk.text
         /\ delivered' = Append(delivered, chunk.text)
    ELSE /\ reply' = ReplyAfterCrash(variant, reply)
         /\ UNCHANGED <<assistant_message, delivered>>

\* The generator yields an error text and ends; chat_fn appends it.
YieldError(text) ==
    /\ yielded' = Append(yielded, StrChunk(text))
    /\ assistant_message' = assistant_message \o text
    /\ reply' = assistant_message \o text
    /\ spc' = "failed"
    /\ UNCHANGED delivered

\* requests.post(..., stream=True) and the status test.
RequestAnswers == {"200", "status_err"} \cup Exceptions

StreamRequest ==
    /\ spc = "idle"
    /\ \E ans \in RequestAnswers :
         /\ CASE ans = "200" ->
                /\ spc' = "streaming"
                /\ UNCHANGED <<yielded, delivered, assistant_message, reply>>
           [] ans = "status_err" -> YieldError(ErrStatus)
           [] OTHER -> YieldError(ExceptText(variant, ans))
         /\ exception' = IF ans \in Exceptions THEN ans ELSE exception
    /\ UNCHANGED <<variant, input, pos>>
    /\ UNCHANGED <<ingestVars, fallbackVars, shapeVars, blockingVars, laterVars>>

\* One iteration of `for line in response.iter_lines()`, with the body of
\* chat_fn's loop when the iteration yields.
StreamLine ==
    /\ spc = "streaming"
    /\ pos < Len(input)
    /\ pos' = pos + 1
    /\ LET d == Decode(variant, input[pos + 1]) IN
         CASE d.do = "skip" ->
                UNCHANGED <<spc, yielded, delivered, assistant_message, reply>>
           [] d.do = "break" ->
                /\ spc' = "ended"
                /\ UNCHANGED <<yielded, delivered, assistant_message, reply>>
           [] d.do = "raise" ->
                YieldError(ExceptText(variant, "Other"))
           [] OTHER ->
                /\ yielded' = Append(yielded, d.chunk)
                /\ Consume(d.chunk)
                /\ spc' = IF d.chunk.isStr THEN "streaming" ELSE "crashed"
    /\ UNCHANGED <<variant, input, exception>>
    /\ UNCHANGED <<ingestVars, fallbackVars, shapeVars, blockingVars, laterVars>>

\* iter_lines raises: the connection broke or the read timed out mid-stream.
StreamTransportError ==
    /\ spc = "streaming"
    /\ \E exc \in Exceptions \ {"ConnectTimeout"} :
         /\ YieldError(ExceptText(variant, exc))
         /\ exception' = exc
    /\ UNCHANGED <<variant, input, pos>>
    /\ UNCHANGED <<ingestVars, fallbackVars, shapeVars, blockingVars, laterVars>>

\* The line source ends: the for loop, the generator and chat_fn's loop end.
StreamEnd ==
    /\ spc = "streaming"
    /\ pos = Len(input)
    /\ spc' = "ended"
    /\ UNCHANGED <<variant, input, pos, yielded, delivered, assistant_message, reply,
                   exception>>
    /\ UNCHANGED <<ingestVars, fallbackVars, shapeVars, blockingVars, laterVars>>

(***************************************************************************)
(* Part 3.  RAGChatBot.query_rag_fallback (gradio_chat_app.py)             *)
(***************************************************************************)

\* The list `configs` the loop runs over: the function returns before the
\* second, three-variant copy of its body, so the list has these two entries.
configs == <<"full", "simplified">>

\* The payload of a variant: which collections it names and whether it asks
\* for the knowledge base.
Payload(v, use_kb) ==
    IF v = "full"
    THEN [variant |-> v, collection_names |-> IF use_kb THEN <<"test">> ELSE <<>>,
          use_knowledge_base |-> use_kb, enable_citations |-> TRUE]
    ELSE [variant |-> v, collection_names |-> <<>>,
          use_knowledge_base |-> FALSE, enable_citations |-> FALSE]

\* What a request can meet: an exception, or a status with, for status 200, a body:
\*   json_content    {"choices":[{"message":{"content":...}}]}
\*   json_nochoices  a JSON object without (or with empty) choices
\*   json_badshape   JSON on which ["choices"][0]["message"]["content"] raises
\*   sse_content     no JSON, data: lines carrying delta contents
\*   nonjson         no JSON and no delta content in it
Statuses == {200, 404, 500, 502, 503}
Bodies == {"json_content", "json_nochoices", "json_badshape", "sse_content", "nonjson"}
Answer(kind, status, body) == [kind |-> kind, status |-> status, body |-> body]
Answers ==
    {Answer("response", 200, b) : b \in Bodies}
    \cup {Answer("response", s, "") : s \in Statuses \ {200}}
    \cup {Answer(e, 0, "") : e \in Exceptions}

\* The values query_rag_fallback returns.
Content(v) == [kind |-> "content", of |-> v]
UnknownFormat == [kind |-> "unknown_format", of |-> ""]
Error(what) == [kind |-> "error", of |-> what]
NoResult == [kind |-> "none", of |-> ""]

\* elif response.status_code == 500: the status that moves on to the next variant.
RetryStatus(status) == status = 500

\* except Exception as e: every exception, requests' ConnectionError and
\* Timeout included, moves on to the next variant (or is the last one's error).
RetriedException(exc) == TRUE

\* if i < len(configs)
HasNext(n) == n < Len(configs)

\* The body of `for i, payload in enumerate(configs, 1)` for one answer:
\* "return" with a value, or "next" (continue, or falling off the if chain).
Return(value) == [do |-> "return", value |-> value]
NextVariant == [do |-> "next", value |-> NoResult]

\* A loop whose success branch lacks the return.
OnContentWithoutReturn(n) == NextVariant

\* return content (of the JSON answer, or the joined delta contents)
OnContent(n) == Return(Content(configs[n]))

TryVariant(n, a) ==
    CASE a.kind # "response" ->
           IF RetriedException(a.kind) /\ HasNext(n) THEN NextVariant
           ELSE Return(Error("exception"))
      [] a.status = 200 ->
           CASE a.body \in {"json_content", "sse_content"} -> OnContent(n)
             [] a.body = "nonjson" -> Return(UnknownFormat)
             [] a.body = "json_nochoices" -> NextVariant
             [] OTHER -> \* the lookup raises inside the try: except Exception
                         IF HasNext(n) THEN NextVariant ELSE Return(Error("exception"))
      [] RetryStatus(a.status) ->
           IF HasNext(n) THEN NextVariant ELSE Return(Error("500"))
      [] OTHER -> Return(Error("status"))

\* One iteration of the loop: the request and what is made of its answer.
FallbackTry ==
    /\ fpc = "loop"
    /\ i <= Len(configs)
    /\ \E a \in Answers :
         LET step == TryVariant(i, a) IN
           /\ requests' = Append(requests, Payload(configs[i], use_knowledge_base))
           /\ outcomes' = Append(outcomes, a)
           /\ IF step.do = "return"
              THEN /\ fpc' = "returned"
                   /\ result' = step.value
                   /\ UNCHANGED i
              ELSE /\ i' = i + 1
                   /\ UNCHANGED <<fpc, result>>
    /\ UNCHANGED use_knowledge_base
    /\ UNCHANGED <<ingestVars, streamVars, shapeVars, blockingVars, laterVars>>

\* The loop ran off the end of configs: return "all configurations failed".
FallbackExhausted ==
    /\ fpc = "loop"
    /\ i > Len(configs)
    /\ fpc' = "returned"
    /\ result' = Error("all_failed")
    /\ UNCHANGED <<use_knowledge_base, i, requests, outcomes>>
    /\ UNCHANGED <<ingestVars, streamVars, shapeVars, blockingVars, laterVars>>

(***************************************************************************)
(* Part 4.  KnowledgeBaseManager.list_collections / list_documents and     *)
(*          get_collections_list (enhanced and fixed managers: same code)  *)
(***************************************************************************)

\* Longest array the backend answers with in the model.
MaxItems == 2

\* The keys an element record can carry in the model.
Keys == {"collection_name", "document_name", "name", "id"}

\* A key the record does not carry.
Absent == "<absent>"
NoFields == [k \in Keys |-> Absent]

\* JSON values that can stand in an array: a string, a number, an object.
Str(text) == [t |-> "str", s |-> text, f |-> NoFields]
Num(text) == [t |-> "num", s |-> text, f |-> NoFields]
Rec(fields) == [t |-> "dict", s |-> "", f |-> fields]

\* The object {k: v}.
With(k, v) == [NoFields EXCEPT ![k] = v]

\* The array elements of the model: names as plain strings, records carrying
\* collection_name, records carrying some of the document aliases, a record
\* carrying none of them, a number.
Elements ==
    { Str("kb1"), Str("kb2"), Num("7"),
      Rec(With("collection_name", "kb1")), Rec(With("collection_name", "kb2")),
      Rec(With("document_name", "d.pdf")), Rec(With("name", "n.pdf")),
      Rec(With("id", "42")),
      Rec([With("name", "n.pdf") EXCEPT !["id"] = "42"]),
      Rec([k \in Keys |-> CASE k = "document_name" -> "d.pdf"
                            [] k = "name" -> "n.pdf"
                            [] k = "id" -> "42"
                            [] OTHER -> Absent]),
      Rec(NoFields) }

\* isinstance(x, dict)
IsDict(v) == v.t = "dict"

\* key in x, for a dict x
Has(v, k) == v.f[k] # Absent

\* str(x): the text itself, the digits, or the braces around the items.
FieldText(v, k) == IF Has(v, k) THEN "'" \o k \o "': '" \o v.f[k] \o "' " ELSE ""
Render(v) ==
    IF IsDict(v)
    THEN "{" \o FieldText(v, "collection_name") \o FieldText(v, "document_name")
             \o FieldText(v, "name") \o FieldText(v, "id") \o "}"
    ELSE v.s

\* x.get(k, default), for a dict x
Get(v, k, default) == IF Has(v, k) THEN Str(v.f[k]) ELSE default

\* What a comprehension over the array comes to: a list, or AttributeError
\* when an element has no get().
Returned(list) == [raised |-> FALSE, value |-> list]
Raised == [raised |-> TRUE, value |-> <<>>]

\* The decoded bodies: an array, an object with one key holding an array or
\* something else, or a value that is neither.
Bare(items) == [shape |-> "array", key |-> "", holds |-> "array", items |-> items]
Wrapped(key, items) ==
    [shape |-> "object", key |-> key, holds |-> "array", items |-> items]
WrappedScalar(key) ==
    [shape |-> "object", key |-> key, holds |-> "scalar", items |-> <<>>]
Scalar == [shape |-> "scalar", key |-> "", holds |-> "scalar", items |-> <<>>]

WrapKeys == {"collections", "documents", "data"}
Arrays == SeqsUpTo(Elements, MaxItems)
JsonBodies ==
    {Bare(a) : a \in Arrays}
      \cup {Wrapped(k, a) : k \in WrapKeys, a \in Arrays}
      \cup {WrappedScalar(k) : k \in WrapKeys}
      \cup {Scalar}

\* What the GET meets: 200 with a JSON body, 200 with a body json() rejects,
\* another status, or requests.get raising.
Json200(body) == [kind |-> "json", status |-> 200, body |-> body]
NonJson200 == [kind |-> "nonjson", status |-> 200, body |-> Scalar]
Status500 == [kind |-> "json", status |-> 500, body |-> Scalar]
RequestRaises == [kind |-> "raises", status |-> 0, body |-> Scalar]
Responses == {Json200(b) : b \in JsonBodies} \cup {NonJson200, Status500, RequestRaises}

\* A comprehension calling get() on each element: the names, or
\* AttributeError when an element is not a dict.
Comprehension(items, names) ==
    IF \E k \in 1..Len(items) : ~IsDict(items[k])
    THEN Raised
    ELSE Returned(names)

\* except Exception: return []
OrEmpty(r) == IF r.raised THEN <<>> ELSE r.value

\* A name lookup that hands the element back as it came.
CollectionNameRaw(col) == col

\* col.get('collection_name', str(col))
CollectionName(col) == Get(col, "collection_name", Str(Render(col)))

\* doc.get('document_name', doc.get('name', doc.get('id', str(doc))))
DocumentName(doc) ==
    Get(doc, "document_name", Get(doc, "name", Get(doc, "id", Str(Render(doc)))))

\* [col.get('collection_name', str(col)) for col in collections]
CollectionNames(items) == [k \in 1..Len(items) |-> CollectionName(items[k])]

\* [doc.get('document_name', ...) for doc in documents]
DocumentNames(items) == [k \in 1..Len(items) |-> DocumentName(items[k])]

\* KnowledgeBaseManager.list_collections
list_collections(resp) ==
    IF resp.kind = "raises" THEN <<>>
    ELSE IF resp.status # 200 THEN <<>>
    ELSE IF resp.kind = "nonjson" THEN <<>>
    ELSE LET data == resp.body IN
         IF data.shape = "object" /\ data.key = "collections"
         THEN IF data.holds = "array" /\ Len(data.items) > 0
              THEN IF IsDict(data.items[1])
                   THEN OrEmpty(Comprehension(data.items, CollectionNames(data.items)))
                   ELSE data.items
              ELSE <<>>
         ELSE IF data.shape = "array"
         THEN IF Len(data.items) > 0 /\ IsDict(data.items[1])
              THEN OrEmpty(Comprehension(data.items, CollectionNames(data.items)))
              ELSE data.items
         ELSE \* logger.warning("Unexpected collections response format")
              <<>>

\* KnowledgeBaseManager.list_documents
list_documents(resp) ==
    IF resp.kind = "raises" THEN <<>>
    ELSE IF resp.status # 200 THEN <<>>
    ELSE IF resp.kind = "nonjson" THEN <<>>
    ELSE LET data == resp.body IN
         IF data.shape = "object" /\ data.key = "documents"
         THEN IF data.holds = "array"
              THEN OrEmpty(Comprehension(data.items, DocumentNames(data.items)))
              ELSE <<>>
         ELSE IF data.shape = "array"
         THEN OrEmpty(Comprehension(data.items, DocumentNames(data.items)))
         ELSE \* logger.warning("Unexpected documents response format")
              <<>>

\* get_collections_list: collections if collections else ["multimodal_data"]
get_collections_list(collections) ==
    IF collections # <<>> THEN collections ELSE <<Str("multimodal_data")>>

\* The collection dropdown is filled: list_collections through
\* get_collections_list.
ListCollections ==
    /\ npc = "idle"
    /\ endpoint = "collections"
    /\ listed' = list_collections(response)
    /\ choices' = get_collections_list(listed')
    /\ npc' = "done"
    /\ UNCHANGED <<endpoint, response>>
    /\ UNCHANGED <<ingestVars, streamVars, fallbackVars, blockingVars, laterVars>>

\* The document list of a collection is fetched: list_documents.
ListDocuments ==
    /\ npc = "idle"
    /\ endpoint = "documents"
    /\ listed' = list_documents(response)
    /\ npc' = "done"
    /\ UNCHANGED <<endpoint, response, choices>>
    /\ UNCHANGED <<ingestVars, streamVars, fallbackVars, blockingVars, laterVars>>

(***************************************************************************)
(* Part 5.  DocumentProcessor.upload_document_blocking, called file by     *)
(*          file from upload_files_enhanced (no progress callback passed)  *)
(***************************************************************************)

\* Most files selected for one upload in the model.
MaxBatch == 2

\* What the upload request of one call can meet: 200 with an acknowledgement
\* object that has no failed_documents, an empty one or a non-empty one; 200
\* with a body json() rejects; another status; requests.exceptions.Timeout
\* after the 300 s limit; any other exception (a connection error).
BlockingAnswers ==
    {"ok_clean", "ok_empty_failed", "ok_failed", "ok_badjson", "status_err",
     "timeout", "raises"}

\* response.status_code == 200 and response.json() gave the acknowledgement
Acknowledged(ans) == ans \in {"ok_clean", "ok_empty_failed", "ok_failed"}

\* A failed_documents test that asks for the key alone.
FailedDocumentsPresent(ans) == ans \in {"ok_failed", "ok_empty_failed"}

\* if data.get('failed_documents'): the list is there and not empty
FailedDocuments(ans) == ans = "ok_failed"

\* A call that sends its upload again after a timeout.
RequestsIssuedWithRetry(ans) == IF ans = "timeout" THEN 2 ELSE 1

\* The requests.post calls one upload_document_blocking call makes: the one
\* in the with block; no loop, no handler sends again.
RequestsIssued(ans) == 1

\* The (success, message) pairs returned.
Success == [success |-> TRUE, message |-> "processed"]
Failure(why) == [success |-> FALSE, message |-> why]

\* DocumentProcessor.upload_document_blocking, by what its request met
upload_document_blocking(ans) ==
    CASE ans = "timeout" -> Failure("processing timed out (>5 min)")
      [] ans \in {"raises", "ok_badjson"} -> Failure("error while processing")
      [] ans = "status_err" -> Failure("upload failed: status")
      [] Acknowledged(ans) /\ FailedDocuments(ans) -> Failure("processing failed: failed_documents")
      [] OTHER -> Success

\* n copies of x
Copies(x, n) == [k \in 1..n |-> x]

\* One iteration of the for loop of upload_files_enhanced: one call of
\* upload_document_blocking, its result appended.
\* A loop that gives up at the first failed file.
MoreFilesUntilFailure ==
    /\ Len(results) < Len(file_paths)
    /\ \A k \in 1..Len(results) : results[k].success

\* for i, file_path in enumerate(file_paths): another file is left
MoreFiles == Len(results) < Len(file_paths)

UploadBlocking ==
    /\ bpc = "loop"
    /\ MoreFiles
    /\ \E ans \in BlockingAnswers :
         LET file == file_paths[Len(results) + 1]
             r == upload_document_blocking(ans)
         IN /\ posted' = posted \o Copies(file, RequestsIssued(ans))
            /\ answers' = Append(answers, ans)
            /\ results' = Append(results, [file_name |-> file, success |-> r.success,
                                           message |-> r.message])
    /\ UNCHANGED <<bpc, file_paths>>
    /\ UNCHANGED <<ingestVars, streamVars, fallbackVars, shapeVars, laterVars>>

\* The loop is over (or `if not files` returned at once): the summary is shown.
UploadsDone ==
    /\ bpc = "loop"
    /\ ~MoreFiles
    /\ bpc' = "done"
    /\ UNCHANGED <<file_paths, posted, answers, results>>
    /\ UNCHANGED <<ingestVars, streamVars, fallbackVars, shapeVars, laterVars>>

(***************************************************************************)
(* Part 6.  chat_fn up to the generation request: gradio_chat_app.py,      *)
(*          gradio_kb_manager_enhanced.py, gradio_kb_manager_fixed.py      *)
(***************************************************************************)

\* Longest chat history in the model.
MaxTurns == 2

\* The texts of earlier turns ("" is an empty one) and the texts typed
\* (" " is blank: message.strip() is empty).
TurnTexts == {"", "x", "y"}
Typed == {"", " ", "m"}

\* One message of the transcript.
Msg(role, content) == [role |-> role, content |-> content]

\* system_instruction of format_messages_for_api
system_instruction == Msg("system", "SYSTEM")

\* for user_msg, bot_msg in history: each appended if it is not empty
RECURSIVE HistoryMessages(_)
HistoryMessages(h) ==
    IF h = <<>> THEN <<>>
    ELSE (IF Head(h)[1] # "" THEN <<Msg("user", Head(h)[1])>> ELSE <<>>)
         \o (IF Head(h)[2] # "" THEN <<Msg("assistant", Head(h)[2])>> ELSE <<>>)
         \o HistoryMessages(Tail(h))

\* A transcript that does not get the system directive.
WithoutDirective(h, m) == HistoryMessages(h) \o <<Msg("user", m)>>

\* RAGChatBot.format_messages_for_api
format_messages_for_api(h, m) ==
    <<system_instruction>> \o HistoryMessages(h) \o <<Msg("user", m)>>

\* The messages the generation request carries: the app strips the leading
\* system message when force_chinese is off; the enhanced manager sends the
\* formatted list as it is (its own loop skips the same empty texts); the
\* fixed manager sends messages[1:] as chat_history.
Transcript(hd, h, m, force) ==
    LET formatted == format_messages_for_api(h, m) IN
    CASE hd = "app" ->
           IF ~force /\ formatted # <<>> /\ formatted[1].role = "system"
           THEN Tail(formatted) ELSE formatted
      [] hd = "enhanced" -> formatted
      [] OTHER -> Tail(formatted)

\* if not message.strip()
Blank(m) == m \in {"", " "}

\* if use_kb and not collection_name (enhanced); if not collection_name (fixed)
NoCollection(hd, kb, coll) ==
    \/ hd = "enhanced" /\ kb /\ coll = ""
    \/ hd = "fixed" /\ coll = ""

\* The replies chat_fn writes itself.
NoKbReply == "ERR_NO_KB_SELECTED"
NotRespondingReply == "ERR_SERVER_NOT_RESPONDING"

\* What a statement `return history, ""` hands to the interface: the app's
\* chat_fn yields before it returns; the managers' chat_fn is a generator too
\* (it yields further down), so its return value is not an output.
ReturnOutput(hd, h) == IF hd = "app" THEN <<h>> ELSE <<>>

\* The requests of chat_fn.
Request(kind, ans, msgs) == [kind |-> kind, answer |-> ans, messages |-> msgs]

\* chat_fn from its first line to the first yield of the extended history.
ChatStart ==
    /\ cpc = "idle"
    /\ IF Blank(message)
       THEN /\ outputs' = outputs \o ReturnOutput(handler, history)
            /\ cpc' = "done"
            /\ UNCHANGED history
       ELSE IF NoCollection(handler, kb_on, selected)
       THEN /\ history' = Append(history, <<message, NoKbReply>>)
            /\ outputs' = outputs \o ReturnOutput(handler, history')
            /\ cpc' = "done"
       ELSE /\ history' = Append(history, <<message, "">>)
            /\ outputs' = Append(outputs, history')
            /\ cpc' = IF handler = "app" THEN "health" ELSE "format"
    /\ UNCHANGED <<handler, message, selected, kb_on, force_chinese, sent>>
    /\ UNCHANGED <<ingestVars, streamVars, fallbackVars, shapeVars, blockingVars,
                   manageVars, reloadVars>>

\* A health answer that lets chat_fn go on whatever the server said.
HealthyAlways(ans) == TRUE

\* RAGChatBot.check_health: status 200, and False when the request raises.
check_health(ans) == ans = "200"

\* if not rag_bot.check_health(): the error reply, return.
HealthCheck ==
    /\ cpc = "health"
    /\ \E ans \in {"200", "status_err", "raises"} :
         /\ sent' = Append(sent, Request("health", ans, <<>>))
         /\ IF check_health(ans)
            THEN /\ cpc' = "format"
                 /\ UNCHANGED <<history, outputs>>
            ELSE /\ history' = [history EXCEPT ![Len(history)] =
                                  <<@[1], NotRespondingReply>>]
                 /\ outputs' = Append(outputs, history')
                 /\ cpc' = "done"
    /\ UNCHANGED <<handler, message, selected, kb_on, force_chinese>>
    /\ UNCHANGED <<ingestVars, streamVars, fallbackVars, shapeVars, blockingVars,
                   manageVars, reloadVars>>

\* The transcript is built from history[:-1] and the message, and the
\* generation request is sent.
ChatSend ==
    /\ cpc = "format"
    /\ sent' = Append(sent, Request("generate", "",
                 Transcript(handler, SubSeq(history, 1, Len(history) - 1),
                            message, force_chinese)))
    /\ cpc' = "streaming"
    /\ UNCHANGED <<handler, message, history, selected, kb_on, force_chinese,
                   outputs>>
    /\ UNCHANGED <<ingestVars, streamVars, fallbackVars, shapeVars, blockingVars,
                   manageVars, reloadVars>>

(***************************************************************************)
(* Part 7.  The handlers of the management tab that change the backend:    *)
(*          gradio_kb_manager_enhanced.py                                  *)
(***************************************************************************)

Handlers == {"create_new_collection", "delete_selected_collection",
             "delete_selected_documents", "upload_files_enhanced"}

\* The texts of the name box / the value of a dropdown ("": nothing).
Names == {"", " ", "kb1", " kb1"}

\* str.strip()
strip(name) ==
    CASE name = " " -> ""
      [] name = " kb1" -> "kb1"
      [] OTHER -> name

\* A handler that asks for nothing.
MissingInputNever(c) == FALSE

\* The guards that return the handler with an error notice before any
\* request: `if not collection_name.strip()`, `if not collection_name`,
\* `if not selected_documents`, `if not files`.
MissingInput(c) ==
    CASE c.fn = "create_new_collection" -> strip(c.collection_name) = ""
      [] c.fn = "delete_selected_collection" -> c.collection_name = ""
      [] c.fn = "delete_selected_documents" ->
           c.collection_name = "" \/ c.selected_documents = <<>>
      [] OTHER -> c.files = <<>> \/ c.collection_name = ""

\* One request that changes the backend.
Mutation(method, path, name, body) ==
    [method |-> method, path |-> path, collection_name |-> name, body |-> body]

\* What the requests of the handlers can meet.
MutationAnswers == {"ok", "fail"}

\* create_new_collection -> kb_manager.create_collection: POST /collection
CreateNewCollection ==
    /\ mpc = "idle"
    /\ click.fn = "create_new_collection"
    /\ IF MissingInput(click)
       THEN notice' = "missing" /\ UNCHANGED mutations
       ELSE \E ans \in MutationAnswers :
              /\ mutations' = Append(mutations,
                     Mutation("POST", "/collection", strip(click.collection_name), <<>>))
              /\ notice' = ans
    /\ mpc' = "done"
    /\ UNCHANGED click
    /\ UNCHANGED <<ingestVars, streamVars, fallbackVars, shapeVars, blockingVars,
                   chatVars, reloadVars>>

\* delete_selected_collection -> kb_manager.delete_collection: DELETE /collections
DeleteSelectedCollection ==
    /\ mpc = "idle"
    /\ click.fn = "delete_selected_collection"
    /\ IF MissingInput(click)
       THEN notice' = "missing" /\ UNCHANGED mutations
       ELSE \E ans \in MutationAnswers :
              /\ mutations' = Append(mutations,
                     Mutation("DELETE", "/collections", click.collection_name, <<>>))
              /\ notice' = ans
    /\ mpc' = "done"
    /\ UNCHANGED click
    /\ UNCHANGED <<ingestVars, streamVars, fallbackVars, shapeVars, blockingVars,
                   chatVars, reloadVars>>

\* delete_selected_documents -> kb_manager.delete_documents: DELETE /documents
DeleteSelectedDocuments ==
    /\ mpc = "idle"
    /\ click.fn = "delete_selected_documents"
    /\ IF MissingInput(click)
       THEN notice' = "missing" /\ UNCHANGED mutations
       ELSE \E ans \in MutationAnswers :
              /\ mutations' = Append(mutations,
                     Mutation("DELETE", "/documents", click.collection_name,
                              click.selected_documents))
              /\ notice' = ans
    /\ mpc' = "done"
    /\ UNCHANGED click
    /\ UNCHANGED <<ingestVars, streamVars, fallbackVars, shapeVars, blockingVars,
                   chatVars, reloadVars>>

\* upload_files_enhanced: its two guards, then one POST /documents per file
\* (Part 5 has the loop file by file).
UploadFilesEnhanced ==
    /\ mpc = "idle"
    /\ click.fn = "upload_files_enhanced"
    /\ IF MissingInput(click)
       THEN notice' = "missing" /\ UNCHANGED mutations
       ELSE \E ans \in MutationAnswers :
              /\ mutations' = mutations \o
                     [k \in 1..Len(click.files) |->
                        Mutation("POST", "/documents", click.collection_name,
                                 <<click.files[k]>>)]
              /\ notice' = ans
    /\ mpc' = "done"
    /\ UNCHANGED click
    /\ UNCHANGED <<ingestVars, streamVars, fallbackVars, shapeVars, blockingVars,
                   chatVars, reloadVars>>

(***************************************************************************)
(* Part 8.  SimpleReloader (gradio_simple_reload.py) and GradioHotReloader *)
(*          (gradio_hot_reload.py)                                         *)
(***************************************************************************)

Reloaders == {"simple", "hot"}

\* Children a run may create, and modification times of the script (0: the
\* script cannot be read).
MaxSpawns == 3
MaxMtime == 2

\* No step of start_gradio / stop_gradio is left to either thread.
NoSteps == [main |-> <<>>, observer |-> <<>>]

\* start_gradio: stop_gradio when self.process is set, then Popen.
StartGradio == <<"stop", "popen">>

\* A stop that leaves the child when the wait timed out.
WithoutKill(a, p) == a

\* self.process.kill()
Kill(a, p) == a \ {p}

\* self.process.wait(timeout=...) after terminate(): a child that is alive
\* exits in time or does not; a dead one is waited for at once.
WaitOutcomes(a, p) == IF p \in a THEN {"exited", "timeout"} ELSE {"exited"}

\* The children alive after terminate, wait and, on TimeoutExpired, kill.
AfterStop(a, p, w) == IF w = "timeout" THEN Kill(a, p) ELSE a \ {p}

\* run(): self.start_gradio()
Run ==
    /\ rpc = "begin"
    /\ todo' = [todo EXCEPT !.main = StartGradio]
    /\ rpc' = "started"
    /\ UNCHANGED <<reloader, opc, process, alive, spawned, last_stop, mtime,
                   last_modified, pending>>
    /\ UNCHANGED <<ingestVars, streamVars, fallbackVars, shapeVars, blockingVars,
                   chatVars, manageVars>>

\* run(), after start_gradio returned: the simple reloader notes the
\* modification time, the hot reloader starts the observer.
RunStarted ==
    /\ rpc = "started"
    /\ todo.main = <<>>
    /\ rpc' = "loop"
    /\ IF reloader = "simple"
       THEN last_modified' = mtime /\ UNCHANGED opc
       ELSE opc' = "watching" /\ UNCHANGED last_modified
    /\ UNCHANGED <<reloader, todo, process, alive, spawned, last_stop, mtime, pending>>
    /\ UNCHANGED <<ingestVars, streamVars, fallbackVars, shapeVars, blockingVars,
                   chatVars, manageVars>>

\* stop_gradio in thread th: terminate, wait, kill on timeout, process = None.
StopGradio(th) ==
    /\ todo[th] # <<>>
    /\ Head(todo[th]) = "stop"
    /\ IF process = 0
       THEN UNCHANGED <<alive, last_stop>>
       ELSE \E w \in WaitOutcomes(alive, process) :
              /\ alive' = AfterStop(alive, process, w)
              /\ last_stop' = w
    /\ process' = 0
    /\ todo' = [todo EXCEPT ![th] = Tail(@)]
    /\ UNCHANGED <<reloader, rpc, opc, spawned, mtime, last_modified, pending>>
    /\ UNCHANGED <<ingestVars, streamVars, fallbackVars, shapeVars, blockingVars,
                   chatVars, manageVars>>

\* self.process = subprocess.Popen(...) in thread th
Popen(th) ==
    /\ todo[th] # <<>>
    /\ Head(todo[th]) = "popen"
    /\ spawned' = spawned + 1
    /\ process' = spawned'
    /\ alive' = alive \cup {spawned'}
    /\ todo' = [todo EXCEPT ![th] = Tail(@)]
    /\ UNCHANGED <<reloader, rpc, opc, last_stop, mtime, last_modified, pending>>
    /\ UNCHANGED <<ingestVars, streamVars, fallbackVars, shapeVars, blockingVars,
                   chatVars, manageVars>>

\* SimpleReloader.check_and_reload, the script being newer than last noted
CheckAndReload ==
    /\ reloader = "simple"
    /\ rpc = "loop"
    /\ todo.main = <<>>
    /\ mtime > last_modified
    /\ spawned < MaxSpawns
    /\ todo' = IF last_modified > 0 THEN [todo EXCEPT !.main = StartGradio] ELSE todo
    /\ last_modified' = mtime
    /\ UNCHANGED <<reloader, rpc, opc, process, alive, spawned, last_stop, mtime,
                   pending>>
    /\ UNCHANGED <<ingestVars, streamVars, fallbackVars, shapeVars, blockingVars,
                   chatVars, manageVars>>

\* SimpleReloader.run: if self.process and self.process.poll() is not None
CrashCheck ==
    /\ reloader = "simple"
    /\ rpc = "loop"
    /\ todo.main = <<>>
    /\ process # 0
    /\ process \notin alive
    /\ spawned < MaxSpawns
    /\ todo' = [todo EXCEPT !.main = StartGradio]
    /\ UNCHANGED <<reloader, rpc, opc, process, alive, spawned, last_stop, mtime,
                   last_modified, pending>>
    /\ UNCHANGED <<ingestVars, streamVars, fallbackVars, shapeVars, blockingVars,
                   chatVars, manageVars>>

\* Somebody saves the script; a running observer queues the event.
FileChange ==
    /\ rpc \in {"started", "loop"}
    /\ mtime < MaxMtime
    /\ mtime' = mtime + 1
    /\ pending' = (pending \/ opc = "watching")
    /\ UNCHANGED <<reloader, rpc, opc, todo, process, alive, spawned, last_stop,
                   last_modified>>
    /\ UNCHANGED <<ingestVars, streamVars, fallbackVars, shapeVars, blockingVars,
                   chatVars, manageVars>>

\* GradioReloadHandler.on_modified in the observer thread: an event within a
\* second of the last one is dropped, another one calls restart_gradio.
OnModified ==
    /\ opc = "watching"
    /\ pending
    /\ todo.observer = <<>>
    /\ spawned < MaxSpawns
    /\ pending' = FALSE
    /\ \E debounced \in BOOLEAN :
         todo' = IF debounced THEN todo ELSE [todo EXCEPT !.observer = StartGradio]
    /\ UNCHANGED <<reloader, rpc, opc, process, alive, spawned, last_stop, mtime,
                   last_modified>>
    /\ UNCHANGED <<ingestVars, streamVars, fallbackVars, shapeVars, blockingVars,
                   chatVars, manageVars>>

\* The child exits by itself (it crashed).
ChildExit ==
    /\ \E c \in alive : alive' = alive \ {c}
    /\ UNCHANGED <<reloader, rpc, opc, todo, process, spawned, last_stop, mtime,
                   last_modified, pending>>
    /\ UNCHANGED <<ingestVars, streamVars, fallbackVars, shapeVars, blockingVars,
                   chatVars, manageVars>>

\* KeyboardInterrupt in the main thread: whatever run() was doing is
\* abandoned and the finally clause begins.
Interrupt ==
    /\ rpc \in {"started", "loop"}
    /\ todo' = [todo EXCEPT !.main = <<>>]
    /\ rpc' = "finally"
    /\ UNCHANGED <<reloader, opc, process, alive, spawned, last_stop, mtime,
                   last_modified, pending>>
    /\ UNCHANGED <<ingestVars, streamVars, fallbackVars, shapeVars, blockingVars,
                   chatVars, manageVars>>

\* finally: the hot reloader's stop_watching (observer.stop(), observer.join():
\* the observer thread ends after the handler it is running), then
\* stop_gradio.
Finally ==
    /\ rpc = "finally"
    /\ todo.observer = <<>>
    /\ opc' = IF opc = "watching" THEN "joined" ELSE opc
    /\ pending' = FALSE
    /\ todo' = [todo EXCEPT !.main = <<"stop">>]
    /\ rpc' = "stopping"
    /\ UNCHANGED <<reloader, process, alive, spawned, last_stop, mtime, last_modified>>
    /\ UNCHANGED <<ingestVars, streamVars, fallbackVars, shapeVars, blockingVars,
                   chatVars, manageVars>>

\* run() returns.
Stopped ==
    /\ rpc = "stopping"
    /\ todo.main = <<>>
    /\ rpc' = "stopped"
    /\ UNCHANGED <<reloader, opc, todo, process, alive, spawned, last_stop, mtime,
                   last_modified, pending>>
    /\ UNCHANGED <<ingestVars, streamVars, fallbackVars, shapeVars, blockingVars,
                   chatVars, manageVars>>

(***************************************************************************)
(* Specifications                                                          *)
(***************************************************************************)

\* Each specification runs one part; the other parts stay as constructed.
IngestOff ==
    /\ pc = [u \in Uploads |-> "off"]
    /\ file_name = [u \in Uploads |-> "a.pdf"]
    /\ collection_name = [u \in Uploads |-> "kb1"]
    /\ task_id = [u \in Uploads |-> "t1"]
    /\ has_callback = [u \in Uploads |-> FALSE]
    /\ attempt = [u \in Uploads |-> 0]
    /\ polls = [u \in Uploads |-> 0]
    /\ shownAt = [u \in Uploads |-> 0]
    /\ retval = [u \in Uploads |-> "none"]
    /\ processing_tasks = [t \in TaskIds |-> NoTask]
    /\ listing = [c \in Colls |-> {}]
    /\ backendBusy = {}
    /\ callback_calls = [u \in Uploads |-> NoCalls]
    /\ inflight = [u \in Uploads |-> NoRequests]
    /\ cancel_requested = [u \in Uploads |-> FALSE]

StreamOff ==
    /\ variant = "app"
    /\ input = <<>>
    /\ pos = 0
    /\ spc = "off"
    /\ yielded = <<>>
    /\ delivered = <<>>
    /\ assistant_message = <<>>
    /\ reply = <<>>
    /\ exception = "none"

FallbackOff ==
    /\ use_knowledge_base = FALSE
    /\ fpc = "off"
    /\ i = 1
    /\ requests = <<>>
    /\ outcomes = <<>>
    /\ result = NoResult

ShapeOff ==
    /\ npc = "off"
    /\ endpoint = "collections"
    /\ response = RequestRaises
    /\ listed = <<>>
    /\ choices = <<>>

BlockingOff ==
    /\ bpc = "off"
    /\ file_paths = <<>>
    /\ posted = <<>>
    /\ answers = <<>>
    /\ results = <<>>

ChatOff ==
    /\ cpc = "off"
    /\ handler = "app"
    /\ message = ""
    /\ history = <<>>
    /\ selected = ""
    /\ kb_on = FALSE
    /\ force_chinese = FALSE
    /\ outputs = <<>>
    /\ sent = <<>>

ManageOff ==
    /\ mpc = "off"
    /\ click = [fn |-> "create_new_collection", collection_name |-> "",
                selected_documents |-> <<>>, files |-> <<>>]
    /\ mutations = <<>>
    /\ notice = ""

ReloadOff ==
    /\ reloader = "simple"
    /\ rpc = "off"
    /\ opc = "off"
    /\ todo = NoSteps
    /\ process = 0
    /\ alive = {}
    /\ spawned = 0
    /\ last_stop = "none"
    /\ mtime = 0
    /\ last_modified = 0
    /\ pending = FALSE

LaterOff == ChatOff /\ ManageOff /\ ReloadOff

\* One async upload on a fresh DocumentProcessor, against a backend whose
\* collections hold any earlier documents.
InitIngest ==
    /\ pc = [u \in Uploads |-> IF u = "u1" THEN "idle" ELSE "off"]
    /\ file_name \in [Uploads -> Files]
    /\ \A u \in Uploads : u # "u1" => file_name[u] = "a.pdf"
    /\ collection_name \in [Uploads -> Colls]
    /\ \A u \in Uploads : u # "u1" => collection_name[u] = "kb1"
    /\ task_id = [u \in Uploads |-> "t1"]
    /\ has_callback \in [Uploads -> BOOLEAN]
    /\ \A u \in Uploads : u # "u1" => ~has_callback[u]
    /\ attempt = [u \in Uploads |-> 0]
    /\ polls = [u \in Uploads |-> 0]
    /\ shownAt = [u \in Uploads |-> 0]
    /\ retval = [u \in Uploads |-> "none"]
    /\ processing_tasks = [t \in TaskIds |-> NoTask]
    /\ listing \in [Colls -> SUBSET Files]
    /\ backendBusy = {}
    /\ callback_calls = [u \in Uploads |-> NoCalls]
    /\ inflight = [u \in Uploads |-> NoRequests]
    /\ cancel_requested = [u \in Uploads |-> FALSE]
    /\ StreamOff
    /\ FallbackOff
    /\ ShapeOff
    /\ BlockingOff
    /\ LaterOff

NextIngest ==
    \E u \in Uploads :
        \/ UploadAsync(u)
        \/ Poll(u)
        \/ AfterLoop(u)
        \/ BackendFinish(u)
        \/ BackendFail(u)

SpecIngest == InitIngest /\ [][NextIngest]_vars

\* Two async uploads on the one DocumentProcessor, the second with any file
\* and any caller-chosen task identifier, against an empty collection.
InitConcurrent ==
    /\ pc = [u \in Uploads |-> "idle"]
    /\ file_name \in [Uploads -> Files]
    /\ file_name["u1"] = "a.pdf"
    /\ collection_name = [u \in Uploads |-> "kb1"]
    /\ task_id \in [Uploads -> TaskIds]
    /\ task_id["u1"] = "t1"
    /\ has_callback = [u \in Uploads |-> FALSE]
    /\ attempt = [u \in Uploads |-> 0]
    /\ polls = [u \in Uploads |-> 0]
    /\ shownAt = [u \in Uploads |-> 0]
    /\ retval = [u \in Uploads |-> "none"]
    /\ processing_tasks = [t \in TaskIds |-> NoTask]
    /\ listing = [c \in Colls |-> {}]
    /\ backendBusy = {}
    /\ callback_calls = [u \in Uploads |-> NoCalls]
    /\ inflight = [u \in Uploads |-> NoRequests]
    /\ cancel_requested = [u \in Uploads |-> FALSE]
    /\ StreamOff
    /\ FallbackOff
    /\ ShapeOff
    /\ BlockingOff
    /\ LaterOff

SpecConcurrent == InitConcurrent /\ [][NextIngest]_vars

\* One async upload without a progress callback, each request sent and
\* answered in separate steps.
InitTransport ==
    /\ InitIngest
    /\ ~has_callback["u1"]

NextTransport ==
    \E u \in Uploads :
        \/ UploadSend(u)
        \/ UploadReceive(u)
        \/ PollSend(u)
        \/ PollReceive(u)
        \/ AfterLoop(u)
        \/ BackendFinish(u)
        \/ BackendFail(u)

SpecTransport == InitTransport /\ [][NextTransport]_vars

\* One async upload that somebody outside may ask to stop at any moment.
NextCancel ==
    \/ NextIngest
    \/ \E u \in Uploads : Cancel(u)

SpecCancel == InitIngest /\ [][NextCancel]_vars

\* One chat turn: any variant, any line sequence up to MaxLines.
InitStream ==
    /\ variant \in Variants
    /\ input \in SeqsUpTo(Lines, MaxLines)
    /\ pos = 0
    /\ spc = "idle"
    /\ yielded = <<>>
    /\ delivered = <<>>
    /\ assistant_message = <<>>
    /\ reply = <<>>
    /\ exception = "none"
    /\ IngestOff
    /\ FallbackOff
    /\ ShapeOff
    /\ BlockingOff
    /\ LaterOff

NextStream ==
    \/ StreamRequest
    \/ StreamLine
    \/ StreamTransportError
    \/ StreamEnd

SpecStream == InitStream /\ [][NextStream]_vars

\* One call of query_rag_fallback.
InitFallback ==
    /\ use_knowledge_base \in BOOLEAN
    /\ fpc = "loop"
    /\ i = 1
    /\ requests = <<>>
    /\ outcomes = <<>>
    /\ result = NoResult
    /\ IngestOff
    /\ StreamOff
    /\ ShapeOff
    /\ BlockingOff
    /\ LaterOff

NextFallback ==
    \/ FallbackTry
    \/ FallbackExhausted

SpecFallback == InitFallback /\ [][NextFallback]_vars

\* One listing call against any answer of the backend.
InitShape ==
    /\ npc = "idle"
    /\ endpoint \in {"collections", "documents"}
    /\ response \in Responses
    /\ listed = <<>>
    /\ choices = <<>>
    /\ IngestOff
    /\ StreamOff
    /\ FallbackOff
    /\ BlockingOff
    /\ LaterOff

NextShape ==
    \/ ListCollections
    \/ ListDocuments

SpecShape == InitShape /\ [][NextShape]_vars

\* One run of upload_files_enhanced over any selection of files.
InitBlocking ==
    /\ bpc = "loop"
    /\ file_paths \in SeqsUpTo(Files, MaxBatch)
    /\ posted = <<>>
    /\ answers = <<>>
    /\ results = <<>>
    /\ IngestOff
    /\ StreamOff
    /\ FallbackOff
    /\ ShapeOff
    /\ LaterOff

NextBlocking ==
    \/ UploadBlocking
    \/ UploadsDone

SpecBlocking == InitBlocking /\ [][NextBlocking]_vars

\* One call of chat_fn, in any of the three programs, with any history.
InitChat ==
    /\ cpc = "idle"
    /\ handler \in Variants
    /\ message \in Typed
    /\ history \in SeqsUpTo(TurnTexts \X TurnTexts, MaxTurns)
    /\ selected \in {"", "kb1"}
    /\ kb_on \in BOOLEAN
    /\ force_chinese \in BOOLEAN
    /\ outputs = <<>>
    /\ sent = <<>>
    /\ IngestOff
    /\ StreamOff
    /\ FallbackOff
    /\ ShapeOff
    /\ BlockingOff
    /\ ManageOff
    /\ ReloadOff

NextChat ==
    \/ ChatStart
    \/ HealthCheck
    \/ ChatSend

SpecChat == InitChat /\ [][NextChat]_vars

\* One click on a button of the management tab, with any inputs.
InitManage ==
    /\ mpc = "idle"
    /\ click \in [fn : Handlers, collection_name : Names,
                  selected_documents : SeqsUpTo(Files, 1),
                  files : SeqsUpTo(Files, MaxBatch)]
    /\ mutations = <<>>
    /\ notice = ""
    /\ IngestOff
    /\ StreamOff
    /\ FallbackOff
    /\ ShapeOff
    /\ BlockingOff
    /\ ChatOff
    /\ ReloadOff

NextManage ==
    \/ CreateNewCollection
    \/ DeleteSelectedCollection
    \/ DeleteSelectedDocuments
    \/ UploadFilesEnhanced

SpecManage == InitManage /\ [][NextManage]_vars

\* One run of a reloader, from run() to its return.
InitReload ==
    /\ reloader \in Reloaders
    /\ rpc = "begin"
    /\ opc = "off"
    /\ todo = NoSteps
    /\ process = 0
    /\ alive = {}
    /\ spawned = 0
    /\ last_stop = "none"
    /\ mtime \in {0, 1}
    /\ last_modified = 0
    /\ pending = FALSE
    /\ IngestOff
    /\ StreamOff
    /\ FallbackOff
    /\ ShapeOff
    /\ BlockingOff
    /\ ChatOff
    /\ ManageOff

NextReload ==
    \/ Run
    \/ RunStarted
    \/ \E th \in {"main", "observer"} : StopGradio(th) \/ Popen(th)
    \/ CheckAndReload
    \/ CrashCheck
    \/ FileChange
    \/ OnModified
    \/ ChildExit
    \/ Interrupt
    \/ Finally
    \/ Stopped

SpecReload == InitReload /\ [][NextReload]_vars

(***************************************************************************)
(* Properties                                                              *)
(***************************************************************************)

\* ---- async-polled upload

\* C1: the poll whose listing first shows the uploaded file's name, the k-th
\* (k in 1..60), marks the task 'completed', is the task's k-th listing
\* request, and ends the loop: no further listing request is issued.
C1_FirstFindCompletesAndStops ==
    [][\A u \in Uploads :
          /\ (shownAt[u] = 0 /\ shownAt'[u] # 0) =>
                /\ StatusOf(u)' = "completed"
                /\ shownAt'[u] \in 1..max_attempts
                /\ polls'[u] = shownAt'[u]
                /\ pc'[u] # "polling"
          /\ (shownAt[u] # 0 => polls'[u] = polls[u])]_vars

\* The last poll of the budget finds the document.
C1_Witness ==
    \E u \in Uploads :
        /\ shownAt[u] = max_attempts
        /\ polls[u] = max_attempts
        /\ StatusOf(u) = "completed"
        /\ pc[u] = "done"

\* C2: when no poll showed the file's name, the task is marked 'timeout'
\* only after exactly 60 listing requests, and a 61st is never sent.
C2_TimeoutOnlyAfterBudget ==
    \A u \in Uploads :
        /\ polls[u] <= max_attempts
        /\ (pc[u] # "off" /\ shownAt[u] = 0 /\ StatusOf(u) = "timeout")
              => polls[u] = max_attempts

\* C3: a task is 'completed' only when the backend has finished processing
\* that upload, whatever the collection held before.
C3_CompletedOnlyWhenFinished ==
    \A u \in Uploads :
        (pc[u] # "off" /\ StatusOf(u) = "completed") => u \notin backendBusy

\* ---- chat stream

\* The chunks of the delta lines of a line sequence, in order.
IsDeltaLine(l) == l.kind = "delta"
DeltasOf(ls) ==
    LET sel == SelectSeq(ls, IsDeltaLine)
    IN  [j \in 1..Len(sel) |-> StrChunk(<<sel[j].content>>)]

\* The concatenation of the texts of a sequence of chunks.
RECURSIVE ConcatChunks(_)
ConcatChunks(cs) ==
    IF cs = <<>> THEN <<>> ELSE Head(cs).text \o ConcatChunks(Tail(cs))

\* The concatenation of a sequence of texts.
RECURSIVE ConcatTexts(_)
ConcatTexts(ts) ==
    IF ts = <<>> THEN <<>> ELSE Head(ts) \o ConcatTexts(Tail(ts))

IsPrefix(a, b) == Len(a) <= Len(b) /\ SubSeq(b, 1, Len(a)) = a

\* The lines taken from the transport so far.
Taken == SubSeq(input, 1, pos)

\* Delta lines followed by the sentinel line, and nothing else.
WellFormedStream(ls) ==
    /\ Len(ls) >= 1
    /\ ls[Len(ls)].kind = "done"
    /\ \A j \in 1..(Len(ls) - 1) : ls[j].kind = "delta"

\* C4: on delta lines followed by 'data: [DONE]' the generator yields
\* exactly the delta contents, once each, in arrival order, and ends; what
\* the caller has concatenated is the concatenation of the deltas.
C4_WellFormedStreamYieldsDeltas ==
    (WellFormedStream(input) /\ spc \in {"streaming", "ended"}) =>
        /\ yielded = DeltasOf(Taken)
        /\ assistant_message = ConcatChunks(DeltasOf(Taken))
        /\ reply = assistant_message
        /\ spc = "ended" => /\ pos = Len(input)
                            /\ yielded = DeltasOf(input)

\* The stream of the specification's example: A, B, [DONE].
C4_Witness ==
    /\ variant = "app"
    /\ input = <<Line("delta", "A"), Line("delta", "B"), Line("done", "")>>
    /\ spc = "ended"
    /\ yielded = <<StrChunk(<<"A">>), StrChunk(<<"B">>)>>
    /\ reply = <<"A", "B">>

\* Delta lines and lines whose payload fails JSON decoding, in any order.
DeltasAndMalformed(ls) ==
    \A j \in 1..Len(ls) : ls[j].kind \in {"delta", "malformed"}

\* C5: with malformed lines interleaved anywhere among delta lines, every
\* variant yields exactly the deltas of the valid lines in arrival order; a
\* malformed line yields nothing and leaves the stream running.
C5_MalformedLinesSkipped ==
    /\ []((DeltasAndMalformed(input) /\ spc \in {"streaming", "ended"}) =>
             /\ yielded = DeltasOf(Taken)
             /\ assistant_message = ConcatChunks(DeltasOf(Taken))
             /\ spc = "ended" => pos = Len(input))
    /\ [][(DeltasAndMalformed(input) /\ pos' = pos + 1) =>
             /\ spc' = "streaming"
             /\ yielded' = DeltasOf(SubSeq(input, 1, pos'))]_vars

\* One malformed line between two valid ones, decoded to the end.
C5_Witness ==
    /\ variant \in {"app", "fixed"}
    /\ input = <<Line("delta", "A"), Line("malformed", ""), Line("delta", "B")>>
    /\ spc = "ended"
    /\ yielded = <<StrChunk(<<"A">>), StrChunk(<<"B">>)>>

\* The lines before the first sentinel line.
RECURSIVE BeforeSentinel(_)
BeforeSentinel(ls) ==
    IF ls = <<>> \/ Head(ls).kind = "done" THEN <<>>
    ELSE <<Head(ls)>> \o BeforeSentinel(Tail(ls))

\* The delta texts among the yielded chunks.
IsDeltaChunk(c) == c.isStr /\ c.text # <<>> /\ c.text \notin ErrorTexts
YieldedDeltas == SelectSeq(yielded, IsDeltaChunk)

\* C6: once 'data: [DONE]' has arrived, every variant stops consuming
\* input, so that no delta of a line after the sentinel is yielded: the
\* deltas yielded are never more than the delta lines before the sentinel.
C6_NothingAfterSentinel ==
    Len(YieldedDeltas) <= Len(DeltasOf(BeforeSentinel(input)))

\* C7: when the stream fails after n deltas were delivered, the reply shown
\* by gradio_chat_app's chat_fn still begins with those n deltas, the error
\* coming after them.
C7_DeliveredTextKept ==
    (variant = "app" /\ spc \in {"failed", "crashed"}) =>
        /\ IsPrefix(ConcatTexts(delivered), reply)
        /\ reply # ConcatTexts(delivered)

\* ---- fallback loop

\* An answer that ends the loop with something to show.
Succeeded(a) ==
    a.kind = "response" /\ a.status = 200
    /\ a.body \in {"json_content", "sse_content", "nonjson"}

\* What the caller gets from a variant's successful answer.
SuccessValue(v, a) == IF a.body = "nonjson" THEN UnknownFormat ELSE Content(v)

\* C8: variants are requested in list order; variant j+1 only after
\* variants 1..j failed; the first success returns that variant's content and
\* nothing is requested after it; a failed last variant returns an error.
C8_FallbackOrder ==
    /\ Len(requests) <= Len(configs)
    /\ Len(outcomes) = Len(requests)
    /\ \A j \in 1..Len(requests) :
          /\ requests[j] = Payload(configs[j], use_knowledge_base)
          /\ j < Len(requests) => ~Succeeded(outcomes[j])
          /\ Succeeded(outcomes[j]) =>
                /\ j = Len(requests)
                /\ fpc = "returned"
                /\ result = SuccessValue(configs[j], outcomes[j])
    /\ (fpc = "returned" /\ ~Succeeded(outcomes[Len(outcomes)])) =>
          result.kind = "error"

\* 500 on variant 1, success on variant 2: two requests, variant 2's content.
C8_Witness ==
    /\ fpc = "returned"
    /\ Len(requests) = 2
    /\ outcomes[1] = Answer("response", 500, "")
    /\ outcomes[2] = Answer("response", 200, "json_content")
    /\ requests[2].variant = "simplified"
    /\ result = Content("simplified")

\* A 5xx status.
Is5xx(a) == a.kind = "response" /\ a.status >= 500 /\ a.status <= 599

\* C9: a 5xx answer to a variant that is not the last is followed by the
\* next variant, not by a return of the error.
C9_Any5xxRetried ==
    \A j \in 1..Len(outcomes) :
        (Is5xx(outcomes[j]) /\ j < Len(configs)) =>
            ~(fpc = "returned" /\ Len(requests) = j)

\* C10: after a connection error no further request is sent in that call.
C10_ConnectionErrorNotRetried ==
    \A j \in 1..Len(outcomes) :
        outcomes[j].kind = "ConnectionError" => Len(requests) = j

\* ---- listing normalizers

\* The key under which each endpoint wraps its array.
ExpectedKey(ep) == IF ep = "collections" THEN "collections" ELSE "documents"

\* A 200 answer carrying the array, bare or wrapped under the expected key.
IsListing(ep, resp) ==
    /\ resp.kind = "json"
    /\ resp.status = 200
    /\ \/ resp.body.shape = "array"
       \/ /\ resp.body.shape = "object"
          /\ resp.body.key = ExpectedKey(ep)
          /\ resp.body.holds = "array"

\* A 200 answer with decodable JSON that is neither of the two.
UnknownShape(ep, resp) ==
    resp.kind = "json" /\ resp.status = 200 /\ ~IsListing(ep, resp)

\* C11: when the backend answers with JSON of an unknown shape, the listing
\* call does not come back with the default empty list, and the dropdown is
\* not filled with the default collection name.
C11_UnknownShapeNeverDefaulted ==
    (npc = "done" /\ UnknownShape(endpoint, response)) =>
        (listed # <<>> /\ choices # <<Str("multimodal_data")>>)

\* Every element is a plain string / a record carrying collection_name.
AllStrings(a) == \A k \in 1..Len(a) : a[k].t = "str"
AllNamed(a) == \A k \in 1..Len(a) : IsDict(a[k]) /\ Has(a[k], "collection_name")

\* The name an element stands for.
NameOf(e) == IF IsDict(e) THEN e.f["collection_name"] ELSE e.s

\* C12: list_collections returns the same list for an array sent bare and for
\* the same array wrapped under 'collections'; and for names sent as plain
\* strings or as records carrying collection_name it returns those names.
C12_SameListForEveryEncoding ==
    (npc = "done" /\ endpoint = "collections" /\ IsListing(endpoint, response)) =>
        LET a == response.body.items IN
        /\ listed = list_collections(Json200(Bare(a)))
        /\ listed = list_collections(Json200(Wrapped("collections", a)))
        /\ (AllStrings(a) \/ AllNamed(a)) =>
              listed = [k \in 1..Len(a) |-> Str(NameOf(a[k]))]

\* Two records wrapped under 'collections' came back as their two names.
C12_Witness ==
    /\ npc = "done"
    /\ endpoint = "collections"
    /\ response = Json200(Wrapped("collections",
                     <<Rec(With("collection_name", "kb1")),
                       Rec(With("collection_name", "kb2"))>>))
    /\ listed = <<Str("kb1"), Str("kb2")>>

\* The identifier an element of a document list stands for: a record's first
\* alias present, else its string rendering.
IdentifierOf(e) == IF IsDict(e) THEN DocumentName(e) ELSE Str(Render(e))

\* C13: list_documents yields one identifier per element of the array, in
\* order, whatever the elements are: no element empties or shortens the list.
C13_OneIdentifierPerElement ==
    (npc = "done" /\ endpoint = "documents" /\ IsListing(endpoint, response)) =>
        LET a == response.body.items IN
        /\ Len(listed) = Len(a)
        /\ \A k \in 1..Len(a) : listed[k] = IdentifierOf(a[k])

\* ---- blocking upload

\* C14: a call whose request was acknowledged with 200 fails exactly when the
\* acknowledgement carries a non-empty failed_documents list and succeeds
\* otherwise; a call that met another status, the timeout or any other error
\* fails, with a reason.
C14_ResultFollowsAcknowledgement ==
    \A k \in 1..Len(results) :
        /\ Acknowledged(answers[k]) =>
              (results[k].success <=> answers[k] # "ok_failed")
        /\ ~Acknowledged(answers[k]) =>
              (~results[k].success /\ results[k].message # "")

\* One call acknowledged with an empty failed_documents list succeeded, the
\* next, acknowledged with a non-empty one, failed.
C14_Witness ==
    /\ Len(results) = 2
    /\ answers = <<"ok_empty_failed", "ok_failed">>
    /\ results[1].success
    /\ ~results[2].success

C16_CallbackOnEveryPoll ==
    \A u \in Uploads :
        has_callback[u] => callback_calls[u].poll >= attempt[u]

\* C16: with a progress callback, every step that changes the task's status
\* (to processing, completed or timeout) invokes it, and a poll attempt that
\* goes through without finding the document invokes it when the attempt's
\* index is a multiple of 6 (every 30 s) and not otherwise.
C16_CallbackOnTransitionsAndEverySixthPoll ==
    [][\A u \in Uploads :
          has_callback[u] =>
            /\ (StatusOf(u)' # StatusOf(u)) =>
                  callback_calls'[u].upload + callback_calls'[u].poll
                    > callback_calls[u].upload + callback_calls[u].poll
            /\ (attempt'[u] = attempt[u] + 1) =>
                  callback_calls'[u].poll =
                    callback_calls[u].poll
                      + (IF attempt[u] % progress_every = 0 THEN 1 ELSE 0)]_vars

\* Seven poll attempts went through: the callback was invoked at attempts 0
\* and 6 only.
C16_Witness ==
    /\ has_callback["u1"]
    /\ pc["u1"] = "polling"
    /\ attempt["u1"] = 7
    /\ callback_calls["u1"].poll = 2
    /\ StatusOf("u1") = "processing"

\* C17: no accepted upload is left behind: when nothing of an upload call is
\* left to run, its recorded task is not still 'processing'.
C17_AcceptedUploadEnds ==
    \A u \in Uploads :
        ~(pc[u] = "done" /\ StatusOf(u) = "processing")

\* C18: an entry is 'completed' only when that entry's own file is listed in
\* that entry's collection.
C18_CompletedByOwnFile ==
    \A t \in TaskIds :
        processing_tasks[t].status = "completed" =>
            processing_tasks[t].file_name
                \in listing[processing_tasks[t].collection_name]

\* C19: an upload call never has two requests in flight; its upload request
\* is in flight only before any poll, and a poll is in flight only after the
\* upload request was answered and the call returned.
C19_OneRequestInFlight ==
    \A u \in Uploads :
        /\ inflight[u].upload + inflight[u].poll <= 1
        /\ inflight[u].upload > 0 => (pc[u] = "idle" /\ polls[u] = 0)
        /\ inflight[u].poll > 0 => (pc[u] = "polling" /\ retval[u] = "True")

\* The third poll of an upload is in flight, alone, after two answered polls.
C19_Witness ==
    /\ inflight["u1"] = [upload |-> 0, poll |-> 1]
    /\ polls["u1"] = 2
    /\ retval["u1"] = "True"

\* C20: once cancellation of an upload was asked for, no further listing
\* request is issued for it.
C20_NoRequestAfterCancel ==
    [][\A u \in Uploads :
          cancel_requested[u] => polls'[u] = polls[u]]_vars

\* ---- error classification, transcript, batch, task states

\* C21: a generation request that ran past its deadline (timeout=60 in the
\* app, timeout=30 in the enhanced manager), while connecting or while
\* reading, is reported with the timeout text.
C21_DeadlineReportedAsTimeout ==
    (spc = "failed" /\ variant # "fixed" /\ IsTimeout(exception)) =>
        yielded[Len(yielded)] = StrChunk(ErrTimeout)

\* The texts of the history turns, user then assistant, turn by turn.
TurnSlots(h) ==
    [j \in 1..(2 * Len(h)) |->
        IF j % 2 = 1 THEN Msg("user", h[(j + 1) \div 2][1])
                     ELSE Msg("assistant", h[j \div 2][2])]

\* The messages of the generation request and the history they were built from.
Generated == sent[Len(sent)].messages
Earlier == SubSeq(history, 1, Len(history) - 1)
IsSystem(m) == m.role = "system"
NotSystem(m) == m.role # "system"
HasText(m) == m.content # ""

\* C22: the transcript gradio_chat_app sends starts with the system directive,
\* which occurs once, when force_chinese is on, and holds no system message
\* when it is off; its other messages are the non-empty texts of the history
\* turns in their order, each once, followed by the new user message.
C22_TranscriptKeepsOrder ==
    (handler = "app" /\ cpc = "streaming") =>
        /\ force_chinese =>
              (Generated[1] = system_instruction
                 /\ Len(SelectSeq(Generated, IsSystem)) = 1)
        /\ ~force_chinese => SelectSeq(Generated, IsSystem) = <<>>
        /\ SelectSeq(Generated, NotSystem) =
              SelectSeq(TurnSlots(Earlier), HasText) \o <<Msg("user", message)>>

\* Two earlier turns, the second without a reply, force_chinese on: the
\* directive, x, y, y, m.
C22_Witness ==
    /\ handler = "app"
    /\ cpc = "streaming"
    /\ force_chinese
    /\ Earlier = << <<"x", "y">>, <<"y", "">> >>
    /\ Generated = <<system_instruction, Msg("user", "x"), Msg("assistant", "y"),
                     Msg("user", "y"), Msg("user", "m")>>

\* C27: when the managers' chat_fn ends on a blank message or on a missing
\* collection, it has sent no request and has handed the interface an output:
\* the history as it then stands.
C27_GuardStillAnswers ==
    (handler # "app" /\ cpc = "done") =>
        /\ sent = <<>>
        /\ outputs # <<>>
        /\ outputs[Len(outputs)] = history

\* C28: in gradio_chat_app.chat_fn every generation request directly follows
\* a health check answered 200; a call that ended after a failed health check
\* sent no generation request and shows the server-not-responding reply in
\* the entry it added; a blank message sends nothing and hands back the
\* history unchanged.
C28_HealthCheckedFirst ==
    /\ [](handler = "app" =>
            /\ \A k \in 1..Len(sent) :
                  sent[k].kind = "generate" =>
                      (k > 1 /\ sent[k - 1] = Request("health", "200", <<>>))
            /\ (cpc = "done" /\ ~Blank(message)) =>
                  /\ \A k \in 1..Len(sent) : sent[k].kind # "generate"
                  /\ history[Len(history)] = <<message, NotRespondingReply>>
                  /\ outputs[Len(outputs)] = history)
    /\ [][(handler = "app" /\ cpc = "idle" /\ Blank(message)) =>
            (history' = history /\ sent' = <<>> /\ outputs' = <<history>>)]_vars

\* The health check met an error status: one request, the error reply shown.
C28_Witness ==
    /\ handler = "app"
    /\ cpc = "done"
    /\ sent = <<Request("health", "status_err", <<>>)>>
    /\ history[Len(history)] = <<"m", NotRespondingReply>>

\* The entries of the batch result that report a success, and a failure.
success_count == Cardinality({k \in 1..Len(results) : results[k].success})
failed_count == Cardinality({k \in 1..Len(results) : ~results[k].success})

\* C23: a batch upload takes the files one at a time in input order: the
\* requests sent so far and the entries recorded so far are those of the
\* first files, in order, and a step records exactly the next file, whether
\* or not an earlier one failed; at the end there is one entry per file and
\* the success and failure counts add up to the number of files.
C23_BatchInOrderAndComplete ==
    /\ [](/\ Len(results) <= Len(file_paths)
          /\ posted = SubSeq(file_paths, 1, Len(results))
          /\ \A k \in 1..Len(results) : results[k].file_name = file_paths[k]
          /\ bpc = "done" =>
                /\ Len(results) = Len(file_paths)
                /\ success_count + failed_count = Len(file_paths))
    /\ [][(bpc = "loop" /\ Len(results) < Len(file_paths)) =>
             /\ Len(results') = Len(results) + 1
             /\ SubSeq(results', 1, Len(results)) = results
             /\ results'[Len(results')].file_name = file_paths[Len(results) + 1]]_vars

\* Two files, the first failed, the second was still uploaded and succeeded.
C23_Witness ==
    /\ bpc = "done"
    /\ Len(file_paths) = 2
    /\ posted = file_paths
    /\ ~results[1].success
    /\ results[2].success

\* C24: a listing poll answered with an error status ends the polling of its
\* task: the step leaves the poll loop and counts no further attempt.
C24_ErrorStatusEndsPolling ==
    [][\A u \in Uploads : \A cb \in CallbackRaises(u) :
          PollAnswered(u, "status_err", cb) =>
              (pc'[u] # "polling" /\ attempt'[u] = attempt[u])]_vars

\* The lines that carry no delta: no 'data: ' prefix, or JSON without the
\* delta fields, or JSON that is not an object.
WithoutDelta == {"no_prefix", "no_choices", "no_content", "non_object"}

\* C25: reading a line that carries no delta yields no chunk and leaves the
\* stream open for the lines after it.
C25_LineWithoutDeltaSkipped ==
    [][(spc = "streaming" /\ pos < Len(input) /\ pos' = pos + 1
          /\ input[pos + 1].kind \in WithoutDelta) =>
             (yielded' = yielded /\ spc' = "streaming")]_vars

\* The states in which a task stays for good.
Terminal == {"completed", "timeout"}

\* C26: the status of a task only moves from processing to completed or to
\* timeout, and a task that is completed or timed out keeps its status.
C26_TerminalStatusKept ==
    [][\A t \in TaskIds :
          LET before == processing_tasks[t].status
              after == processing_tasks'[t].status
          IN /\ before \in Terminal => after = before
             /\ (before = "processing" /\ after # before) => after \in Terminal]_vars

\* ---- management handlers, reloaders

\* C29: a handler of the management tab has sent a request that changes the
\* backend only if it was given what it needs: delete_selected_documents a
\* collection and at least one document, delete_selected_collection a name,
\* create_new_collection a name that is not blank, upload_files_enhanced
\* files and a target collection.
C29_NoMutationWithoutInput ==
    mutations # <<>> =>
        CASE click.fn = "delete_selected_documents" ->
               click.collection_name # "" /\ Len(click.selected_documents) >= 1
          [] click.fn = "delete_selected_collection" -> click.collection_name # ""
          [] click.fn = "create_new_collection" -> click.collection_name \notin {"", " "}
          [] OTHER -> Len(click.files) >= 1 /\ click.collection_name # ""

\* Delete was clicked with a collection chosen and no document ticked: the
\* handler ended with the notice and sent nothing.
C29_Witness ==
    /\ mpc = "done"
    /\ click.fn = "delete_selected_documents"
    /\ click.collection_name = "kb1"
    /\ click.selected_documents = <<>>
    /\ notice = "missing"
    /\ mutations = <<>>

\* C30: a reloader never has two children alive; it creates a child only
\* when the one before was stopped (terminated and waited for, killed when
\* the wait timed out) and the handle cleared; when run() has returned no
\* child is alive.
C30_AtMostOneChild ==
    /\ [](Cardinality(alive) <= 1 /\ (rpc = "stopped" => alive = {}))
    /\ [][spawned' # spawned => (alive = {} /\ process = 0)]_vars

\* A restart whose wait timed out: the first child was killed, the second runs.
C30_Witness ==
    /\ spawned = 2
    /\ alive = {2}
    /\ process = 2
    /\ last_stop = "timeout"

====
